---------------------------- MODULE Spec2Model ----------------------------
(***************************************************************************)
(* Model of obf_support.py: the read-only OBF container decoder (File and  *)
(* Stack).  A file on disk is a sequence of bytes; File.__init__ parses    *)
(* the file header and walks the linked stack headers, Stack.data loads    *)
(* the payload lazily through File._read_stack.                            *)
(***************************************************************************)
EXTENDS Integers, Sequences, FiniteSets, TLC

(***************************************************************************)
(* Bounds of the model.                                                    *)
(***************************************************************************)
\* largest extent of one axis in the generated rank-2 files
MaxDim == 3
\* number of caller operations (data, close, del) after construction
MaxOps == 4
\* cap on the number of stacks appended by the directory walk (cyclic files)
MaxStacks == 3

(***************************************************************************)
(* Python values and helpers.                                              *)
(***************************************************************************)
\* None, and an attribute or local that has not been assigned
None == [py |-> "None"]
Unset == [py |-> "unset"]
\* no exception
NoExc == "none"

\* the value of an expression evaluated once
Only(S) == CHOOSE y \in S : TRUE

Ok(v) == [ok |-> TRUE, val |-> v]
Raise(e) == [ok |-> FALSE, err |-> e]

RECURSIVE Prod(_)
Prod(s) == IF s = <<>> THEN 1 ELSE Head(s) * Prod(Tail(s))

Reverse(s) == [i \in 1..Len(s) |-> s[Len(s) + 1 - i]]

Min(a, b) == IF a < b THEN a ELSE b

\* Python slice s[a:b] and index s[k] on a tuple (0-based, clipped)
PySlice(s, a, b) == SubSeq(s, Min(a, Len(s)) + 1, Min(b, Len(s)))
PyAt(s, k) == s[k + 1]

RECURSIVE Repeat(_, _)
Repeat(x, n) == IF n = 0 THEN <<>> ELSE <<x>> \o Repeat(x, n - 1)

RECURSIVE Flatten(_)
Flatten(ss) == IF ss = <<>> THEN <<>> ELSE Head(ss) \o Flatten(Tail(ss))

(***************************************************************************)
(* struct: little-endian fixed-width fields.                               *)
(***************************************************************************)
RECURSIVE LE(_, _)
LE(n, w) == IF w = 0 THEN <<>> ELSE <<n % 256>> \o LE(n \div 256, w - 1)

RECURSIVE UInt(_)
UInt(b) == IF b = <<>> THEN 0 ELSE Head(b) + 256 * UInt(Tail(b))

Int16(b) == IF UInt(b) >= 32768 THEN UInt(b) - 65536 ELSE UInt(b)

RECURSIVE Pow2(_)
Pow2(n) == IF n = 0 THEN 1 ELSE 2 * Pow2(n - 1)

\* IEEE-754 binary64 as a rational <<numerator, denominator>>; the files of
\* the model only hold doubles whose low six mantissa bytes are zero.
Double(b) ==
  LET e == (b[8] % 128) * 16 + (b[7] \div 16)
      m == b[7] % 16
  IN  IF e = 0 THEN <<0, 1>>
      ELSE IF e >= 1023 THEN <<(16 + m) * Pow2(e - 1023), 16>>
      ELSE <<16 + m, 16 * Pow2(1023 - e)>>

D0 == <<0, 0, 0, 0, 0, 0, 0, 0>>
D1 == <<0, 0, 0, 0, 0, 0, 240, 63>>
D2 == <<0, 0, 0, 0, 0, 0, 0, 64>>
D3 == <<0, 0, 0, 0, 0, 0, 8, 64>>

\* n fields of width w starting at byte offset off (0-based) of data
Field(data, off, i, w) == SubSeq(data, off + (i - 1) * w + 1, off + i * w)

UInts(data, off, n, w) == [i \in 1..n |-> UInt(Field(data, off, i, w))]

Doubles(data, off, n) == [i \in 1..n |-> Double(Field(data, off, i, 8))]

(***************************************************************************)
(* Module constants of obf_support.py.                                     *)
(***************************************************************************)
file_header_len == 26
FILE_MAGIC_HEADER == <<79, 77, 65, 83, 95, 66, 70, 10, 255, 255>>
stack_header_len == 368
STACK_MAGIC_HEADER ==
  <<79, 77, 65, 83, 95, 66, 70, 95, 83, 84, 65, 67, 75, 10, 255, 255>>
MAX_DIMENSIONS == 15

\* '<10sIQI'
file_header_unpack(data) ==
  IF Len(data) < file_header_len THEN Raise("struct.error")
  ELSE Ok(<<SubSeq(data, 1, 10), UInt(SubSeq(data, 11, 14)),
            UInt(SubSeq(data, 15, 22)), UInt(SubSeq(data, 23, 26))>>)

\* '<16s17I30d5I3Q'
stack_header_unpack(data) ==
  IF Len(data) < stack_header_len THEN Raise("struct.error")
  ELSE Ok(<<SubSeq(data, 1, 16)>>
          \o UInts(data, 16, 17, 4)
          \o Doubles(data, 84, 30)
          \o UInts(data, 324, 5, 4)
          \o UInts(data, 344, 3, 8))

\* keys of the mapping of OMAS_DT to NumPy data types
every_data_type == [c \in 0..255 |-> "int16"]

omas_data_types ==
  [c \in {1, 2, 4, 8, 16, 32, 64, 128} |->
     CASE c = 1 -> "uint8" [] c = 2 -> "int8" [] c = 4 -> "uint16"
       [] c = 8 -> "int16" [] c = 16 -> "uint32" [] c = 32 -> "int32"
       [] c = 64 -> "float32" [] c = 128 -> "float64"]


(***************************************************************************)
(* Library behaviour used by the decoder: bytes.decode('utf-8'),           *)
(* zlib.decompress and the NumPy calls of _read_stack.                     *)
(***************************************************************************)
\* well-formed UTF-8 made of one- and two-byte sequences
RECURSIVE Utf8(_)
Utf8(b) ==
  IF b = <<>> THEN Ok(<<>>)
  ELSE IF b[1] < 128
    THEN LET r == Utf8(Tail(b))
         IN  IF r.ok THEN Ok(<<b[1]>> \o r.val) ELSE r
  ELSE IF b[1] >= 194 /\ b[1] <= 223 /\ Len(b) >= 2 /\ b[2] >= 128 /\ b[2] <= 191
    THEN LET r == Utf8(SubSeq(b, 3, Len(b)))
         IN  IF r.ok THEN Ok(<<(b[1] - 192) * 64 + (b[2] - 128)>> \o r.val) ELSE r
  ELSE Raise("UnicodeDecodeError")

RECURSIVE AdlerA(_)
AdlerA(d) == IF d = <<>> THEN 1 ELSE (AdlerA(SubSeq(d, 1, Len(d) - 1)) + d[Len(d)]) % 65521

RECURSIVE AdlerB(_)
AdlerB(d) ==
  IF d = <<>> THEN 0 ELSE (AdlerB(SubSeq(d, 1, Len(d) - 1)) + AdlerA(d)) % 65521

Adler32(d) == Reverse(LE(AdlerB(d), 2)) \o Reverse(LE(AdlerA(d), 2))

\* zlib stream holding one final stored block (what zlib writes at level 0)
zlib_compress(d) ==
  <<120, 1, 1>> \o LE(Len(d), 2) \o LE(65535 - Len(d), 2) \o d \o Adler32(d)

\* zlib.decompress for streams of one final stored block; bytes after the
\* end of the stream are ignored, anything malformed raises zlib.error
zlib_decompress(c) ==
  IF Len(c) < 7 \/ c[1] # 120 \/ (c[1] * 256 + c[2]) % 31 # 0 \/ c[3] # 1
    THEN Raise("zlib.error")
  ELSE LET n == UInt(SubSeq(c, 4, 5))
       IN  IF UInt(SubSeq(c, 6, 7)) # 65535 - n \/ Len(c) < 11 + n
             THEN Raise("zlib.error")
           ELSE LET d == SubSeq(c, 8, 7 + n)
                IN  IF SubSeq(c, 8 + n, 11 + n) # Adler32(d)
                      THEN Raise("zlib.error")
                    ELSE Ok(d)

\* np.frombuffer(data, dtype=np.int16): a flat array of 2-byte elements
np_frombuffer(data) ==
  IF Len(data) % 2 # 0 THEN Raise("ValueError")
  ELSE Ok([shape |-> <<Len(data) \div 2>>,
           flat |-> [k \in 1..(Len(data) \div 2) |->
                       Int16(SubSeq(data, 2 * k - 1, 2 * k))]])

\* row-major (C order) position of a multi-index, and back
RECURSIVE Ravel(_, _)
Ravel(idx, shape) ==
  IF idx = <<>> THEN 0
  ELSE idx[Len(idx)]
       + shape[Len(shape)] * Ravel(SubSeq(idx, 1, Len(idx) - 1),
                                   SubSeq(shape, 1, Len(shape) - 1))

RECURSIVE Unravel(_, _)
Unravel(k, shape) ==
  IF shape = <<>> THEN <<>>
  ELSE Unravel(k \div shape[Len(shape)], SubSeq(shape, 1, Len(shape) - 1))
       \o <<k % shape[Len(shape)]>>

\* np.reshape(array, shape): same elements in the same flat order
np_reshape(array, shape) ==
  IF Prod(shape) # Len(array.flat) THEN Raise("ValueError")
  ELSE Ok([shape |-> shape, flat |-> array.flat])

\* np.transpose(array): the axes in reversed order
np_transpose(array) ==
  LET shape == Reverse(array.shape)
  IN  [shape |-> shape,
       flat |-> [k \in 1..Len(array.flat) |->
                   array.flat[Ravel(Reverse(Unravel(k - 1, shape)), array.shape) + 1]]]

\* array[idx] for a full multi-index (0-based)
Item(array, idx) == array.flat[Ravel(idx, array.shape) + 1]

(***************************************************************************)
(* The files on disk.  A file is described by what it holds (a record      *)
(* with the file header fields, the stack records in the order they lie    *)
(* in the file, and the order in which the next_stack_pos chain links      *)
(* them) and is encoded to bytes with the layout of the OBF headers.       *)
(***************************************************************************)
Pad(s, x) == s \o Repeat(x, MAX_DIMENSIONS - Len(s))

Int16Bytes(elems) == Flatten([k \in 1..Len(elems) |-> LE((elems[k] + 65536) % 65536, 2)])

Iota(n) == [k \in 1..n |-> k - 1]

\* a stack record: res holds the 15 on-disk extents, disk the payload bytes
StackRec(rank, res, dt, ct, name, disk) ==
  [magic |-> STACK_MAGIC_HEADER, version |-> 6, rank |-> rank,
   res |-> Pad(res, 9),
   len |-> Pad([i \in 1..Len(res) |-> IF i % 2 = 1 THEN D2 ELSE D3], D0),
   off |-> Pad([i \in 1..Len(res) |-> D1], D0),
   dt |-> dt, ct |-> ct, name |-> name, descr |-> <<100>>,
   name_len |-> Len(name), descr_len |-> 1,
   disk |-> disk, data_len |-> Len(disk)]

\* an int16 stack of the given shape holding 0, 1, 2, ... in file order
Plain(shape, name) ==
  StackRec(Len(shape), shape, 8, 0, name, Int16Bytes(Iota(Prod(shape))))

FileRec(recs, chain) ==
  [exists |-> TRUE, magic |-> FILE_MAGIC_HEADER, version |-> 2,
   descr |-> <<111, 98, 102>>, descr_len |-> 3,
   recs |-> recs, chain |-> chain, last |-> 0, cut |-> 0]

RecSize(r) == stack_header_len + Len(r.name) + Len(r.descr) + Len(r.disk)

RECURSIVE RecPos(_, _)
RecPos(f, k) ==
  IF k = 1 THEN file_header_len + Len(f.descr)
  ELSE RecPos(f, k - 1) + RecSize(f.recs[k - 1])

\* the next_stack_pos stored in record k: its successor in the chain, the
\* target of the last link (0 ends the chain), or 0 when k is not chained
NextPos(f, k) ==
  LET at == {i \in 1..Len(f.chain) : f.chain[i] = k}
  IN  IF at = {} THEN 0
      ELSE LET i == CHOOSE j \in at : TRUE
           IN  IF i < Len(f.chain) THEN RecPos(f, f.chain[i + 1])
               ELSE IF f.last = 0 THEN 0 ELSE RecPos(f, f.last)

FirstPos(f) == IF f.chain = <<>> THEN 0 ELSE RecPos(f, f.chain[1])

PackStack(r, next) ==
  r.magic \o LE(r.version, 4) \o LE(r.rank, 4)
  \o Flatten([i \in 1..MAX_DIMENSIONS |-> LE(r.res[i], 4)])
  \o Flatten(r.len) \o Flatten(r.off)
  \o LE(r.dt, 4) \o LE(r.ct, 4) \o LE(0, 4) \o LE(r.name_len, 4) \o LE(r.descr_len, 4)
  \o LE(0, 8) \o LE(r.data_len, 8) \o LE(next, 8)
  \o r.name \o r.descr \o r.disk

PackFile(f) ==
  LET all == f.magic \o LE(f.version, 4) \o LE(FirstPos(f), 8) \o LE(f.descr_len, 4)
             \o f.descr
             \o Flatten([k \in 1..Len(f.recs) |-> PackStack(f.recs[k], NextPos(f, k))])
  IN  SubSeq(all, 1, Len(all) - f.cut)

NameA == <<97>>
NameB == <<98>>
Ones(n) == Repeat(1, n)

\* the rank-2 int16 files with every pair of extents up to MaxDim
Rank2Files ==
  [k \in 1..(MaxDim * MaxDim) |->
     FileRec(<<Plain(<<((k - 1) \div MaxDim) + 1, ((k - 1) % MaxDim) + 1>>, NameA)>>, <<1>>)]

Scenario == Plain(<<2, 3>>, NameA)

OtherFiles ==
  << \* 1: no stack at all (first_stack_pos = 0)
     FileRec(<<>>, <<>>),
     \* 2: the same payload deflate-wrapped
     FileRec(<<StackRec(2, <<2, 3>>, 8, 1, NameA, zlib_compress(Int16Bytes(Iota(6))))>>, <<1>>),
     \* 3: two chained stacks with the same name, in file order
     FileRec(<<Scenario, Plain(<<3>>, NameA)>>, <<1, 2>>),
     \* 4: two chained stacks, the chain visits the second one first
     FileRec(<<Plain(<<2, 2>>, NameA), Plain(<<2, 1, 2>>, NameB)>>, <<2, 1>>),
     \* 5: corrupted file magic
     [FileRec(<<Scenario>>, <<1>>) EXCEPT !.magic = [FILE_MAGIC_HEADER EXCEPT ![1] = 88]],
     \* 6: corrupted magic of the second stack header
     FileRec(<<Scenario, [Scenario EXCEPT !.magic = [STACK_MAGIC_HEADER EXCEPT ![16] = 0]],
               Scenario>>, <<1, 2, 3>>),
     \* 7: data type code 3 on the second stack
     FileRec(<<Scenario, [Scenario EXCEPT !.dt = 3], Scenario>>, <<1, 2, 3>>),
     \* 8: data type code 0 on the only stack
     FileRec(<<[Scenario EXCEPT !.dt = 0]>>, <<1>>),
     \* 9: compression code 2, payload stored as for code 0
     FileRec(<<[Scenario EXCEPT !.ct = 2]>>, <<1>>),
     \* 10: ranks 0 and 1
     FileRec(<<Plain(<<>>, NameA), Plain(<<3>>, NameB)>>, <<1, 2>>),
     \* 11: ranks 15 and 14
     FileRec(<<StackRec(15, Ones(15), 8, 0, NameA, <<7, 0>>), Plain(Ones(14), NameB)>>,
             <<1, 2>>),
     \* 12: ranks 16 and 300
     FileRec(<<StackRec(16, Ones(15), 8, 0, NameA, <<7, 0>>),
               StackRec(300, Ones(15), 8, 0, NameB, <<7, 0>>)>>, <<1, 2>>),
     \* 13: the file ends inside the payload of the second stack
     [FileRec(<<Scenario, Scenario>>, <<1, 2>>) EXCEPT !.cut = 4],
     \* 14: payload of an odd number of bytes
     FileRec(<<StackRec(1, <<1>>, 8, 0, NameA, <<1, 0, 2>>), Scenario>>, <<1, 2>>),
     \* 15: the last stack links back to the first one
     [FileRec(<<Scenario, Plain(<<3>>, NameB)>>, <<1, 2>>) EXCEPT !.last = 1],
     \* 16: the file ends inside the file header
     [FileRec(<<>>, <<>>) EXCEPT !.cut = 10],
     \* 17: the file ends inside the second stack header
     [FileRec(<<Scenario, Plain(<<>>, NameB)>>, <<1, 2>>) EXCEPT !.cut = 100],
     \* 18: stack name that is not UTF-8
     FileRec(<<StackRec(1, <<2>>, 8, 0, <<97, 255>>, Int16Bytes(Iota(2)))>>, <<1>>),
     \* 19: two-byte UTF-8 sequence in the name
     FileRec(<<StackRec(1, <<2>>, 8, 0, <<195, 164>>, Int16Bytes(Iota(2)))>>, <<1>>),
     \* 20: deflate-wrapped payload with a wrong checksum
     FileRec(<<StackRec(1, <<2>>, 8, 1, NameA,
                         [zlib_compress(Int16Bytes(Iota(2))) EXCEPT ![15] = 99]), Scenario>>,
             <<1, 2>>),
     \* 21: uint8 and float32 stacks with payloads of their own element width
     FileRec(<<StackRec(2, <<2, 3>>, 1, 0, NameA, <<0, 1, 2, 3, 4, 5>>),
               StackRec(1, <<2>>, 64, 0, NameB, <<0, 0, 128, 63, 0, 0, 0, 64>>)>>, <<1, 2>>),
     \* 22: an axis of extent 0
     FileRec(<<Plain(<<0, 2>>, NameA), Scenario>>, <<1, 2>>),
     \* 23: file description that is not UTF-8
     [FileRec(<<Scenario>>, <<1>>) EXCEPT !.descr = <<255, 98, 102>>],
     \* 24: negative 16-bit elements, one stack of the file outside the chain
     FileRec(<<StackRec(2, <<2, 2>>, 8, 0, NameA, Int16Bytes(<<-1, 2, -3, 4>>)), Scenario>>,
             <<1>>),
     \* 25: stack description that is not UTF-8
     FileRec(<<Scenario, [Scenario EXCEPT !.descr = <<255>>]>>, <<1, 2>>),
     \* 26: the file ends right after the header of the only stack
     [FileRec(<<Plain(<<>>, NameA)>>, <<1>>) EXCEPT !.cut = 4],
     \* 27: the file ends between the name and the description of the only stack
     [FileRec(<<Plain(<<>>, NameA)>>, <<1>>) EXCEPT !.cut = 3],
     \* 28: the header declares 12 payload bytes, the file ends after 4 of them
     FileRec(<<[Plain(<<2>>, NameA) EXCEPT !.data_len = 12]>>, <<1>>),
     \* 29: the only stack links back to itself
     [FileRec(<<Scenario>>, <<1>>) EXCEPT !.last = 1],
     \* 30: three stacks, the second one deflate-wrapped with a wrong checksum
     FileRec(<<Scenario,
               StackRec(1, <<2>>, 8, 1, NameB,
                        [zlib_compress(Int16Bytes(Iota(2))) EXCEPT ![15] = 99]),
               Plain(<<3>>, NameA)>>, <<1, 2, 3>>)
  >>

Files == Rank2Files \o OtherFiles

\* the bytes of each file
Disk == [p \in 1..Len(Files) |-> PackFile(Files[p])]

\* a path that names no file
NoFile == 0

(***************************************************************************)
(* State.                                                                  *)
(***************************************************************************)
VARIABLES
  file_path,        \* argument of File(file_path): a file of Disk, or NoFile
  disk,             \* the bytes of that file
  pc,               \* "start", then where File.__init__ stands: "header",
                    \* "walk"; "done" once it returned, "failed" once it raised
  _file,            \* self._file: Unset, or the binary file object with its
                    \* position and the log of the operations applied to it
  format_version,   \* self.format_version
  description,      \* self.description
  next_stack_pos,   \* local of File.__init__
  stacks,           \* self.stacks, the sequence of Stack objects
  narrays,          \* number of NumPy arrays created by _read_stack so far
  nops,             \* number of caller operations after construction
  close_calls,      \* number of close() and __del__ calls of the caller
  op,               \* the last caller operation
  ret,              \* what it returned
  exc,              \* the exception it raised, or NoExc
  threads           \* for each thread that accesses data concurrently: where it
                    \* stands in __getattr__ / _read_stack, and its locals

vars == <<file_path, disk, pc, _file, format_version, description, next_stack_pos,
          stacks, narrays, nops, close_calls, op, ret, exc, threads>>

(***************************************************************************)
(* The binary file object returned by open(file_path, 'rb').               *)
(***************************************************************************)
\* who: the index of the stack whose data is loaded, 0 otherwise
Entry(o, who, p, n) == [op |-> o, who |-> who, pos |-> p, n |-> n]

f_open == [closed |-> FALSE, pos |-> 0, log |-> <<>>]

f_seek(f, p, who) ==
  [f EXCEPT !.pos = p, !.log = Append(@, Entry("seek", who, p, 0))]

\* read(n): the bytes from the position up to n of them, fewer at the end
f_read(f, n, who) ==
  [f |-> [f EXCEPT !.pos = Min(f.pos + n, Len(disk)),
                   !.log = Append(@, Entry("read", who, f.pos, n))],
   data |-> PySlice(disk, f.pos, f.pos + n)]

f_close(f) ==
  [f EXCEPT !.closed = TRUE, !.log = Append(@, Entry("close", 0, f.pos, 0))]

(***************************************************************************)
(* File.close, File._read_string, Stack.__init__                           *)
(***************************************************************************)
close_always(f) ==
  IF f = Unset THEN Raise("AttributeError") ELSE Ok(f_close(f))

close_never(f) ==
  IF f = Unset THEN Raise("AttributeError") ELSE Ok(f)

close(f) ==
  IF f = Unset THEN Raise("AttributeError")
  ELSE IF ~f.closed THEN Ok(f_close(f)) ELSE Ok(f)

raise_only(f, res) == [f |-> f, res |-> res]

\* except: self.close(); raise
close_and_raise(f, res) ==
  IF res.ok THEN [f |-> f, res |-> res] ELSE [f |-> close(f).val, res |-> res]

\* struct.unpack_from('<{}s'.format(length), data)[0].decode('utf-8')
unpack_string(data, length) ==
  IF Len(data) < length THEN Raise("struct.error")
  ELSE Utf8(PySlice(data, 0, length))

read_string_of(r, length) == close_and_raise(r.f, unpack_string(r.data, length))

_read_string(f, length, who) ==
  Only({read_string_of(r, length) : r \in {f_read(f, length, who)}})

Stack(format_version_, name, description_, shape, lengths, offsets, data_type, compression_type, data_pos, data_length) ==
  [format_version |-> format_version_, name |-> name, description |-> description_,
   shape |-> shape, lengths |-> lengths, offsets |-> offsets, data_type |-> data_type,
   _compression_type |-> compression_type, _data_pos |-> data_pos,
   _data_length |-> data_length, _data |-> None]

(***************************************************************************)
(* File.__init__                                                           *)
(***************************************************************************)
any_magic(magic_header) == TRUE

file_magic_ok(magic_header) == magic_header = FILE_MAGIC_HEADER

stack_magic_ok(magic_header) == magic_header = STACK_MAGIC_HEADER

data_type_known(data_type) == data_type \in DOMAIN omas_data_types

\* values[3:17][:rank], values[18:32][:rank], values[33:47][:rank]
header_shape(values) == PySlice(PySlice(values, 3, 17), 0, PyAt(values, 2))
header_lengths(values) == PySlice(PySlice(values, 18, 32), 0, PyAt(values, 2))
header_offsets(values) == PySlice(PySlice(values, 33, 47), 0, PyAt(values, 2))

prepend_stack(list, stack) == <<stack>> \o list

append_stack(list, stack) == Append(list, stack)

\* data_pos = self._file.tell(); stack = Stack(...)
new_stack(values, name, descr) ==
  IF ~descr.res.ok THEN descr
  ELSE [f |-> descr.f,
        res |-> Ok([stack |-> Stack(PyAt(values, 1), name, descr.res.val,
                                    header_shape(values), header_lengths(values),
                                    header_offsets(values),
                                    omas_data_types[PyAt(values, 48)],
                                    PyAt(values, 49), descr.f.pos, PyAt(values, 54)),
                    next_stack_pos |-> PyAt(values, 55)])]

\* description = self._read_string(description_length)
read_description(values, name) ==
  IF ~name.res.ok THEN name
  ELSE Only({new_stack(values, name.res.val, descr) :
               descr \in {_read_string(name.f, PyAt(values, 52), 0)}})

\* interpret stack header; name = self._read_string(name_length)
interpret_header(f, values) ==
  IF ~stack_magic_ok(PyAt(values, 0))
    THEN [f |-> f, res |-> Raise("RuntimeError: Magic stack header not found.")]
  ELSE IF ~data_type_known(PyAt(values, 48))
    THEN [f |-> f, res |-> Raise("RuntimeError: Unsupported data type.")]
  ELSE Only({read_description(values, name) : name \in {_read_string(f, PyAt(values, 51), 0)}})

unpack_header(f, u) ==
  IF ~u.ok THEN [f |-> f, res |-> u] ELSE interpret_header(f, u.val)

read_header(r) == Only({unpack_header(r.f, u) : u \in {stack_header_unpack(r.data)}})

\* one pass of the loop body: seek, read and interpret one stack header
parse_stack(f, pos) ==
  Only({read_header(r) : r \in {f_read(f_seek(f, pos, 0), stack_header_len, 0)}})

init_fails_open(f, err) ==
  /\ pc' = "failed"
  /\ _file' = f
  /\ exc' = IF f = Unset THEN close(f).err ELSE err

\* except: self.close(); raise
InitFails(f, err) ==
  /\ pc' = "failed"
  /\ _file' = IF f = Unset THEN f ELSE close(f).val
  /\ exc' = IF f = Unset THEN close(f).err ELSE err

\* self._file = open(file_path, 'rb')
OpenFile ==
  /\ pc = "start"
  /\ IF file_path = NoFile
       THEN InitFails(Unset, "FileNotFoundError")
       ELSE pc' = "header" /\ _file' = f_open /\ exc' = exc
  /\ UNCHANGED <<file_path, disk, threads, format_version, description, next_stack_pos,
                 stacks, narrays, nops, close_calls, op, ret>>

\* the rest of the file header: magic, description, start of the walk
FileHeaderRead(f, values) ==
  /\ format_version' = values[2]
  /\ IF ~file_magic_ok(values[1])
       THEN InitFails(f, "RuntimeError: Magic file header not found.")
            /\ UNCHANGED <<description, next_stack_pos>>
       ELSE \E d \in {_read_string(f, values[4], 0)} :
                IF ~d.res.ok
                  THEN InitFails(d.f, d.res.err)
                       /\ UNCHANGED <<description, next_stack_pos>>
                  ELSE /\ description' = d.res.val
                       /\ next_stack_pos' = values[3]
                       /\ _file' = d.f
                       /\ pc' = "walk"
                       /\ exc' = exc

FileHeaderUnpacked(f, u) ==
  IF ~u.ok
    THEN InitFails(f, u.err) /\ UNCHANGED <<format_version, description, next_stack_pos>>
    ELSE FileHeaderRead(f, u.val)

FileHeaderOf(r) == \E u \in {file_header_unpack(r.data)} : FileHeaderUnpacked(r.f, u)

\* the file header and the file description; self.stacks = []
ReadFileHeader ==
  /\ pc = "header"
  /\ \E r \in {f_read(_file, file_header_len, 0)} : FileHeaderOf(r)
  /\ UNCHANGED <<file_path, disk, threads, stacks, narrays, nops, close_calls, op, ret>>

walk_at_most_two(pos, list) == pos # 0 /\ Len(list) < 2

\* while next_stack_pos != 0
walk_goes_on(pos, list) == pos # 0

Walked(r) ==
  IF r.res.ok
    THEN /\ stacks' = append_stack(stacks, r.res.val.stack)
         /\ next_stack_pos' = r.res.val.next_stack_pos
         /\ _file' = r.f
         /\ UNCHANGED <<pc, exc>>
    ELSE InitFails(r.f, r.res.err) /\ UNCHANGED <<stacks, next_stack_pos>>

\* one pass of "while next_stack_pos != 0"
WalkStack ==
  /\ pc = "walk"
  /\ walk_goes_on(next_stack_pos, stacks)
  /\ Len(stacks) < MaxStacks
  /\ \E r \in {parse_stack(_file, next_stack_pos)} : Walked(r)
  /\ UNCHANGED <<file_path, disk, threads, format_version, description, narrays, nops,
                 close_calls, op, ret>>

\* the loop ends and File(file_path) returns the object
WalkEnd ==
  /\ pc = "walk"
  /\ ~walk_goes_on(next_stack_pos, stacks)
  /\ pc' = "done"
  /\ UNCHANGED <<file_path, disk, threads, _file, format_version, description,
                 next_stack_pos, stacks, narrays, nops, close_calls, op, ret, exc>>

(***************************************************************************)
(* File._read_stack and Stack.__getattr__                                  *)
(***************************************************************************)
reshape_only(array, shape) == np_reshape(array, Reverse(shape))

reshape_as_declared(array, shape) == np_reshape(array, shape)

transposed(r) == IF r.ok THEN Ok(np_transpose(r.val)) ELSE r

\* reshape with reversed shape and then reverse order of dimensions
reshape_transpose(array, shape) == transposed(np_reshape(array, Reverse(shape)))

is_compressed(stack) == stack._compression_type = 1

\* if compressed, uncompress
uncompress(stack, data) ==
  IF is_compressed(stack) THEN zlib_decompress(data) ELSE Ok(data)

to_array(stack, array) ==
  IF array.ok THEN reshape_transpose(array.val, stack.shape) ELSE array

\* convert to numpy array, reshape
convert(stack, data) ==
  IF data.ok THEN to_array(stack, np_frombuffer(data.val)) ELSE data

logged(f, stack, who, n) ==
  IF is_compressed(stack)
    THEN [f EXCEPT !.log = Append(@, Entry("decompress", who, 0, n))]
    ELSE f

numbered(res, id) ==
  IF res.ok THEN Ok([id |-> id, shape |-> res.val.shape, flat |-> res.val.flat])
  ELSE res

loaded(r, stack, who, id) ==
  close_and_raise(logged(r.f, stack, who, Len(r.data)),
                  numbered(convert(stack, uncompress(stack, r.data)), id))

\* the array built from the payload of stack (numbered id), or the error;
\* every error closes the file before it is raised again
_read_stack(f, stack, who, id) ==
  IF f.closed THEN [f |-> f, res |-> Raise("ValueError")]
  ELSE loaded(f_read(f_seek(f, stack._data_pos, who), stack._data_length, who),
              stack, who, id)

needs_load_always(stack) == TRUE

\* self._data is None
needs_load(stack) == stack._data = None

DataLoaded(i, r) ==
  /\ _file' = r.f
  /\ IF r.res.ok
       THEN /\ stacks' = [stacks EXCEPT ![i]._data = r.res.val]
            /\ narrays' = narrays + 1
            /\ ret' = r.res.val
            /\ exc' = NoExc
       ELSE /\ ret' = Unset
            /\ exc' = r.res.err
            /\ UNCHANGED <<stacks, narrays>>

\* stack.data
GetData(i) ==
  /\ pc = "done"
  /\ nops < MaxOps
  /\ nops' = nops + 1
  /\ op' = [name |-> "data", stack |-> i]
  /\ IF needs_load(stacks[i])
       THEN DataLoaded(i, _read_stack(_file, stacks[i], i, narrays + 1))
       ELSE /\ ret' = stacks[i]._data
            /\ exc' = NoExc
            /\ UNCHANGED <<_file, stacks, narrays>>
  /\ UNCHANGED <<file_path, disk, threads, pc, format_version, description, next_stack_pos,
                 close_calls>>

np_true_divide(l, n) == Ok(<<l[1], l[2] * n>>)

\* l / n for a float l = l[1] / l[2] and an int n
true_divide(l, n) ==
  IF n = 0 THEN Raise("ZeroDivisionError") ELSE Ok(<<l[1], l[2] * n>>)

\* [l / n for n, l in zip(self.shape, self.lengths)]
pixel_sizes(stack) ==
  IF \E k \in 1..Min(Len(stack.shape), Len(stack.lengths)) :
       ~true_divide(stack.lengths[k], stack.shape[k]).ok
    THEN Raise("ZeroDivisionError")
    ELSE Ok([k \in 1..Min(Len(stack.shape), Len(stack.lengths)) |->
               true_divide(stack.lengths[k], stack.shape[k]).val])

PixelSizes(r) ==
  /\ ret' = IF r.ok THEN [py |-> "list", items |-> r.val] ELSE Unset
  /\ exc' = IF r.ok THEN NoExc ELSE r.err

\* stack.pixel_sizes
GetPixelSizes(i) ==
  /\ pc = "done"
  /\ nops < MaxOps
  /\ nops' = nops + 1
  /\ op' = [name |-> "pixel_sizes", stack |-> i]
  /\ \E r \in {pixel_sizes(stacks[i])} : PixelSizes(r)
  /\ UNCHANGED <<file_path, disk, threads, pc, _file, format_version, description,
                 next_stack_pos, stacks, narrays, close_calls>>

Closed(r) ==
  /\ _file' = IF r.ok THEN r.val ELSE _file
  /\ ret' = IF r.ok THEN None ELSE Unset
  /\ exc' = IF r.ok THEN NoExc ELSE r.err

CallClose(name) ==
  /\ nops < MaxOps
  /\ nops' = nops + 1
  /\ close_calls' = close_calls + 1
  /\ op' = [name |-> name, stack |-> 0]
  /\ Closed(close(_file))
  /\ UNCHANGED <<file_path, disk, threads, pc, format_version, description, next_stack_pos,
                 stacks, narrays>>

\* obf.close()
Close == pc = "done" /\ CallClose("close")

\* File.__del__, also run for an object whose construction failed
Del == pc \in {"done", "failed"} /\ CallClose("__del__")

(***************************************************************************)
(* Threads that access data of Stacks of one File at the same time: each   *)
(* call of the file object is one step, other threads run in between.      *)
(***************************************************************************)
Threads == {1, 2}

Idle == [pc |-> "idle", stack |-> 0, data |-> <<>>, ret |-> Unset, exc |-> NoExc]

ThreadRaises(t, err) ==
  threads' = [threads EXCEPT ![t].pc = "raised", ![t].exc = err]

\* stack.data is evaluated by thread t: "if self._data is None"
ThreadAccess(t, i) ==
  /\ pc = "done"
  /\ threads[t].pc = "idle"
  /\ threads' = IF needs_load(stacks[i])
                  THEN [threads EXCEPT ![t].pc = "seek", ![t].stack = i]
                  ELSE [threads EXCEPT ![t].pc = "returned", ![t].stack = i,
                                       ![t].ret = stacks[i]._data]
  /\ UNCHANGED <<file_path, disk, pc, _file, format_version, description,
                 next_stack_pos, stacks, narrays, nops, close_calls, op, ret, exc>>

\* self._file.seek(stack._data_pos)
ThreadSeek(t) ==
  /\ threads[t].pc = "seek"
  /\ IF _file.closed
       THEN ThreadRaises(t, "ValueError") /\ UNCHANGED _file
       ELSE /\ _file' = f_seek(_file, stacks[threads[t].stack]._data_pos, threads[t].stack)
            /\ threads' = [threads EXCEPT ![t].pc = "read"]
  /\ UNCHANGED <<file_path, disk, pc, format_version, description, next_stack_pos,
                 stacks, narrays, nops, close_calls, op, ret, exc>>

ThreadHasRead(t, r) ==
  /\ _file' = r.f
  /\ threads' = [threads EXCEPT ![t].pc = "convert", ![t].data = r.data]

\* data = self._file.read(stack._data_length), at the position the file has now
ThreadRead(t) ==
  /\ threads[t].pc = "read"
  /\ IF _file.closed
       THEN ThreadRaises(t, "ValueError") /\ UNCHANGED _file
       ELSE \E r \in {f_read(_file, stacks[threads[t].stack]._data_length,
                             threads[t].stack)} : ThreadHasRead(t, r)
  /\ UNCHANGED <<file_path, disk, pc, format_version, description, next_stack_pos,
                 stacks, narrays, nops, close_calls, op, ret, exc>>

ThreadLoaded(t, r) ==
  /\ _file' = r.f
  /\ IF r.res.ok
       THEN /\ stacks' = [stacks EXCEPT ![threads[t].stack]._data = r.res.val]
            /\ narrays' = narrays + 1
            /\ threads' = [threads EXCEPT ![t].pc = "returned", ![t].ret = r.res.val]
       ELSE ThreadRaises(t, r.res.err) /\ UNCHANGED <<stacks, narrays>>

\* uncompress, convert, reshape and store; or close the file and raise
ThreadConvert(t) ==
  /\ threads[t].pc = "convert"
  /\ \E r \in {loaded([f |-> _file, data |-> threads[t].data],
                       stacks[threads[t].stack], threads[t].stack, narrays + 1)} :
       ThreadLoaded(t, r)
  /\ UNCHANGED <<file_path, disk, pc, format_version, description, next_stack_pos,
                 nops, close_calls, op, ret, exc>>

(***************************************************************************)
(* Specification: one File object used by one caller.                      *)
(***************************************************************************)
Init ==
  /\ file_path \in {NoFile} \cup (1..Len(Files))
  /\ disk = IF file_path = NoFile THEN <<>> ELSE Disk[file_path]
  /\ pc = "start"
  /\ _file = Unset
  /\ format_version = Unset
  /\ description = Unset
  /\ next_stack_pos = Unset
  /\ stacks = <<>>
  /\ narrays = 0
  /\ nops = 0
  /\ close_calls = 0
  /\ op = [name |-> "", stack |-> 0]
  /\ ret = Unset
  /\ exc = NoExc
  /\ threads = [t \in Threads |-> Idle]

Next ==
  \/ OpenFile
  \/ ReadFileHeader
  \/ WalkStack
  \/ WalkEnd
  \/ \E i \in 1..Len(stacks) : GetData(i)
  \/ \E i \in 1..Len(stacks) : GetPixelSizes(i)
  \/ Close
  \/ Del

Spec == Init /\ [][Next]_vars

\* File.__init__ is straight-line code: once called it runs until it returns or
\* raises
Construction == OpenFile \/ ReadFileHeader \/ WalkStack \/ WalkEnd

FairSpec == Spec /\ WF_vars(Construction)

\* one File object whose Stacks are accessed by the threads
ConcNext ==
  \/ OpenFile
  \/ ReadFileHeader
  \/ WalkStack
  \/ WalkEnd
  \/ \E t \in Threads : \E i \in 1..Len(stacks) : ThreadAccess(t, i)
  \/ \E t \in Threads : ThreadSeek(t)
  \/ \E t \in Threads : ThreadRead(t)
  \/ \E t \in Threads : ThreadConvert(t)

ConcSpec == Init /\ [][ConcNext]_vars

(***************************************************************************)
(* Observations on the state used by the properties.                       *)
(***************************************************************************)
\* number of operations o applied to the file on behalf of stack who
Count(o, who) ==
  Cardinality({k \in 1..Len(_file.log) : _file.log[k].op = o /\ _file.log[k].who = who})

Reads(i) == Count("read", i)
Seeks(i) == Count("seek", i)
Decompressions(i) == Count("decompress", i)
Releases == Count("close", 0)

Materialized(i) == stacks[i]._data # None

\* the step is the caller's access to stacks[i].data
IsAccess(i) == nops' = nops + 1 /\ op'.name = "data" /\ op'.stack = i

\* what the file at file_path holds
Content == Files[file_path]

\* the k-th record visited by following the chain of F (k >= 1)
Visited(F, k) ==
  IF k <= Len(F.chain) THEN F.recs[F.chain[k]]
  ELSE LET j == CHOOSE x \in 1..Len(F.chain) : F.chain[x] = F.last
       IN  F.recs[F.chain[j + ((k - Len(F.chain) - 1) % (Len(F.chain) - j + 1))]]

RegisteredCodes == {1, 2, 4, 8, 16, 32, 64, 128}

\* the bytes of the file hold a whole stack header at offset p
HeaderAt(p) == p + stack_header_len <= Len(disk)
MagicAt(p) == SubSeq(disk, p + 1, p + 16)
DataTypeAt(p) == UInt(SubSeq(disk, p + 325, p + 328))

\* the log grew by exactly: seek to a header, read it, close
OnlyHeaderRead ==
  /\ Len(_file'.log) = Len(_file.log) + 3
  /\ SubSeq(_file'.log, 1, Len(_file.log)) = _file.log
  /\ _file'.log[Len(_file.log) + 1].op = "seek"
  /\ _file'.log[Len(_file.log) + 2] = Entry("read", 0, next_stack_pos, stack_header_len)
  /\ _file'.log[Len(_file.log) + 3].op = "close"

(***************************************************************************)
(* C1: data is loaded lazily and cached.                                   *)
(***************************************************************************)
C1_Inv ==
  pc = "done" =>
    /\ \A i \in 1..Len(stacks) :
         /\ Reads(i) <= 1 /\ Seeks(i) <= 1 /\ Decompressions(i) <= 1
         /\ Materialized(i) => Reads(i) = 1 /\ Seeks(i) = 1
    /\ op.name = "data" =>
         IF exc = NoExc
           THEN Materialized(op.stack) /\ ret = stacks[op.stack]._data
           ELSE ~Materialized(op.stack)

C1_Step ==
  \A i \in 1..Len(stacks) :
    Materialized(i) =>
      /\ stacks'[i]._data = stacks[i]._data
      /\ IsAccess(i) => _file' = _file /\ exc' = NoExc /\ ret' = stacks[i]._data

\* C1 (as amended): an access to data that succeeds on a Stack whose _data is
\* None performs exactly one seek and one read (at most one decompress) and
\* sets _data; every later access returns that same cached array without any
\* further seek, read or decompress, and _data never changes again.  Over the
\* life of the Stack its payload is read at most once; an access that fails
\* leaves _data None.
C1_Cached == [](C1_Inv) /\ [][C1_Step]_vars

\* C1 witness: the second of two accesses to the same Stack returned the array
\* cached by the first one.
C1_Witness ==
  /\ pc = "done" /\ Len(stacks) = 1 /\ nops = 2 /\ close_calls = 0
  /\ op.name = "data" /\ exc = NoExc /\ narrays = 1
  /\ ret = stacks[1]._data /\ Reads(1) = 1

\* C1 as stated: in a sequence of accesses to data (close() is never called),
\* every access returns the cached array, the payload having been read by
\* exactly one seek and one read and _data having gone from None to an array.
C1_Original ==
  (pc = "done" /\ op.name = "data" /\ close_calls = 0) =>
    /\ exc = NoExc
    /\ Materialized(op.stack)
    /\ ret = stacks[op.stack]._data
    /\ Reads(op.stack) = 1 /\ Seeks(op.stack) = 1 /\ Decompressions(op.stack) <= 1

(***************************************************************************)
(* C2: close() is idempotent.                                              *)
(***************************************************************************)
C2_Inv ==
  _file # Unset =>
    /\ Releases <= 1
    /\ _file.closed <=> Releases = 1
    /\ op.name \in {"close", "__del__"} => exc = NoExc /\ ret = None /\ _file.closed

C2_Step == (_file # Unset /\ _file.closed) => _file'.closed /\ _file'.log = _file.log

\* C2: for a File whose file was opened, close() and __del__ never raise, the
\* file is released by the first of them only (one release in all), and once
\* closed it stays closed and is not touched again.
C2_CloseIdempotent == [](C2_Inv) /\ [][C2_Step]_vars

\* C2 witness: close() and __del__ were called three times, interleaved with a
\* successful data access, and the file was released once.
C2_Witness ==
  /\ pc = "done" /\ close_calls = 3 /\ narrays = 1 /\ Releases = 1
  /\ op.name = "close" /\ exc = NoExc

(***************************************************************************)
(* C3: no access to the source after close().                              *)
(***************************************************************************)
C3_Inv ==
  _file # Unset =>
    \A j, k \in 1..Len(_file.log) :
      (j < k /\ _file.log[j].op = "close") => _file.log[k].op = "close"

C3_Step ==
  \A i \in 1..Len(stacks) :
    (pc = "done" /\ close_calls >= 1 /\ ~Materialized(i) /\ IsAccess(i)) =>
      /\ exc' # NoExc
      /\ ret' = Unset
      /\ stacks' = stacks
      /\ _file'.log = _file.log

\* C3: after close() (or __del__), the first access to data of a Stack that
\* was not materialized before fails with an error, reads nothing and leaves
\* _data None; no seek, read or decompress ever follows the release.
C3_NoReadAfterClose == [](C3_Inv) /\ [][C3_Step]_vars

\* C3 witness: one Stack was materialized, the file was closed, and the access
\* to the other Stack failed without a read.
C3_Witness ==
  /\ pc = "done" /\ Len(stacks) = 2 /\ close_calls = 1 /\ narrays = 1
  /\ op.name = "data" /\ exc = "ValueError"
  /\ ~Materialized(op.stack) /\ Reads(op.stack) = 0
  /\ _file.log[Len(_file.log)].op = "close"

(***************************************************************************)
(* C4: rank and the lengths of shape, lengths and offsets.                 *)
(***************************************************************************)
\* C4 as stated: for every Stack produced by the directory walk,
\* len(shape) = len(lengths) = len(offsets) = rank of its header and
\* rank <= 15 (a header of larger rank produces no Stack).
C4_RankLengths ==
  file_path # NoFile =>
    \A k \in 1..Len(stacks) :
      /\ Len(stacks[k].shape) = Visited(Content, k).rank
      /\ Len(stacks[k].lengths) = Visited(Content, k).rank
      /\ Len(stacks[k].offsets) = Visited(Content, k).rank
      /\ Visited(Content, k).rank <= MAX_DIMENSIONS

(***************************************************************************)
(* C5: the shape of the materialized array.                                *)
(***************************************************************************)
\* C5: whenever a Stack's data is materialized, the shape of the array is the
\* Stack's shape, element by element and in the same order, for every rank.
C5_Shape ==
  /\ \A i \in 1..Len(stacks) : Materialized(i) => stacks[i]._data.shape = stacks[i].shape
  /\ (op.name = "data" /\ exc = NoExc) => ret.shape = stacks[op.stack].shape

\* C5 witness: a Stack of shape [2, 3] returned an array of shape [2, 3].
C5_Witness ==
  /\ pc = "done" /\ op.name = "data" /\ exc = NoExc
  /\ stacks[op.stack].shape = <<2, 3>> /\ ret.shape = <<2, 3>>

(***************************************************************************)
(* C6: the order of the elements of a rank-2 array.                        *)
(***************************************************************************)
\* the 16-bit integers of an uncompressed payload, in file order
PayloadOf(rec) ==
  [k \in 1..(Len(rec.disk) \div 2) |-> Int16(SubSeq(rec.disk, 2 * k - 1, 2 * k))]

LastAxisFastest(x, y, a, b) == x * b + y

FirstAxisFastest(x, y, a, b) == x + y * a

\* every materialized rank-2 Stack with an uncompressed payload p satisfies
\* data[x][y] = p[k] for its shape [a, b], k being LastAxisFastest(x, y, a, b)
\* or FirstAxisFastest(x, y, a, b)
ElementsAre(last) ==
  file_path # NoFile =>
    \A i \in 1..Len(stacks) :
      (Materialized(i) /\ Len(stacks[i].shape) = 2 /\ Visited(Content, i).ct = 0) =>
        \A x \in 0..(stacks[i].shape[1] - 1), y \in 0..(stacks[i].shape[2] - 1) :
          Item(stacks[i]._data, <<x, y>>)
            = PayloadOf(Visited(Content, i))[
                (IF last THEN LastAxisFastest(x, y, stacks[i].shape[1], stacks[i].shape[2])
                         ELSE FirstAxisFastest(x, y, stacks[i].shape[1], stacks[i].shape[2])) + 1]

\* C6 as stated: data[i][j] = p[i*b + j] (the last listed axis varies fastest),
\* so that shape [2, 3] with payload 0..5 gives [[0, 1, 2], [3, 4, 5]].
C6_LastAxisFastest == ElementsAre(TRUE)

\* C6 (as amended): data[i][j] = p[i + j*a] for declared shape [a, b] and flat
\* payload p (the first listed axis varies fastest); shape [2, 3] with payload
\* 0, 1, 2, 3, 4, 5 gives [[0, 2, 4], [1, 3, 5]].
C6_FirstAxisFastest ==
  /\ ElementsAre(FALSE)
  /\ \A i \in 1..Len(stacks) :
       (Materialized(i) /\ stacks[i].shape = <<2, 3>> /\ file_path # NoFile
          /\ Visited(Content, i).ct = 0
          /\ PayloadOf(Visited(Content, i)) = <<0, 1, 2, 3, 4, 5>>) =>
         /\ Item(stacks[i]._data, <<0, 0>>) = 0 /\ Item(stacks[i]._data, <<0, 1>>) = 2
         /\ Item(stacks[i]._data, <<0, 2>>) = 4 /\ Item(stacks[i]._data, <<1, 0>>) = 1
         /\ Item(stacks[i]._data, <<1, 1>>) = 3 /\ Item(stacks[i]._data, <<1, 2>>) = 5

\* C6 witness: the Stack of shape [2, 3] with the uncompressed payload 0..5 is
\* materialized.
C6_Witness ==
  /\ pc = "done" /\ file_path # NoFile /\ Len(stacks) = 1 /\ Materialized(1)
  /\ stacks[1].shape = <<2, 3>> /\ Visited(Content, 1).ct = 0
  /\ PayloadOf(Visited(Content, 1)) = <<0, 1, 2, 3, 4, 5>>

(***************************************************************************)
(* C7: magic mismatch.                                                     *)
(***************************************************************************)
C7_FileStep ==
  (pc = "header" /\ Len(disk) >= file_header_len
     /\ SubSeq(disk, 1, 10) # FILE_MAGIC_HEADER) =>
    /\ pc' = "failed"
    /\ exc' = "RuntimeError: Magic file header not found."
    /\ stacks' = <<>>
    /\ _file'.closed
    /\ _file'.log = <<Entry("read", 0, 0, file_header_len), Entry("close", 0, file_header_len, 0)>>

C7_StackStep ==
  (pc = "walk" /\ next_stack_pos # 0 /\ Len(stacks) < MaxStacks
     /\ HeaderAt(next_stack_pos) /\ MagicAt(next_stack_pos) # STACK_MAGIC_HEADER) =>
    /\ pc' = "failed"
    /\ exc' = "RuntimeError: Magic stack header not found."
    /\ stacks' = stacks
    /\ _file'.closed
    /\ OnlyHeaderRead

C7_Final ==
  (pc = "failed" /\ _file # Unset) =>
    pc' = "failed" /\ stacks' = stacks /\ _file'.log = _file.log

\* C7: if the file header magic differs from FILE_MAGIC_HEADER, or the magic
\* of a stack header reached by the walk differs from STACK_MAGIC_HEADER,
\* File construction fails with the error at that point: no File object is
\* returned, nothing more is read from the file (no further header, no
\* string), and for a bad file magic no Stack has been created.
C7_MagicMismatch == [][C7_FileStep /\ C7_StackStep /\ C7_Final]_vars

\* C7 witness: the walk failed on the magic of the second stack header, after
\* one Stack had been created.
C7_Witness ==
  /\ pc = "failed" /\ exc = "RuntimeError: Magic stack header not found."
  /\ Len(stacks) = 1 /\ _file.closed

(***************************************************************************)
(* C8: unsupported data type.                                              *)
(***************************************************************************)
C8_Step ==
  (pc = "walk" /\ next_stack_pos # 0 /\ Len(stacks) < MaxStacks
     /\ HeaderAt(next_stack_pos) /\ MagicAt(next_stack_pos) = STACK_MAGIC_HEADER
     /\ DataTypeAt(next_stack_pos) \notin RegisteredCodes) =>
    /\ pc' = "failed"
    /\ exc' = "RuntimeError: Unsupported data type."
    /\ stacks' = stacks
    /\ _file'.closed
    /\ OnlyHeaderRead

C8_Inv ==
  (pc # "done" /\ _file # Unset) => \A k \in 1..Len(_file.log) : _file.log[k].who = 0

\* C8: if a stack header reached by the walk carries a data type code that is
\* not one of 1, 2, 4, 8, 16, 32, 64, 128, File construction fails with an
\* error right after the header was read: neither the name nor the
\* description of that record is read, and no payload of any record has been
\* read.
C8_UnsupportedDataType == [](C8_Inv) /\ [][C8_Step]_vars

\* C8 witness: the walk failed on the data type code of the second stack
\* header.
C8_Witness ==
  /\ pc = "failed" /\ exc = "RuntimeError: Unsupported data type."
  /\ Len(stacks) = 1 /\ _file.closed

(***************************************************************************)
(* C9: the directory walk over an acyclic chain of valid headers.          *)
(***************************************************************************)
ValidRec(r) ==
  /\ r.magic = STACK_MAGIC_HEADER
  /\ r.dt \in RegisteredCodes
  /\ Utf8(r.name).ok /\ Utf8(r.descr).ok
  /\ r.name_len = Len(r.name) /\ r.descr_len = Len(r.descr)

\* the header of record k of F and its two strings lie within the file
WholeRec(F, k) ==
  RecPos(F, k) + stack_header_len + Len(F.recs[k].name) + Len(F.recs[k].descr)
    <= Len(disk)

ValidChain(F) ==
  /\ F.magic = FILE_MAGIC_HEADER
  /\ Utf8(F.descr).ok /\ F.descr_len = Len(F.descr)
  /\ file_header_len + Len(F.descr) <= Len(disk)
  /\ F.last = 0
  /\ \A k \in 1..Len(F.chain) : ValidRec(F.recs[F.chain[k]]) /\ WholeRec(F, F.chain[k])

\* stack is the Stack of record k of F
StackOf(F, k, stack) ==
  /\ stack.name = Utf8(F.recs[k].name).val
  /\ stack.description = Utf8(F.recs[k].descr).val
  /\ stack.format_version = F.recs[k].version
  /\ stack._compression_type = F.recs[k].ct
  /\ stack._data_length = F.recs[k].data_len
  /\ stack._data_pos
       = RecPos(F, k) + stack_header_len + Len(F.recs[k].name) + Len(F.recs[k].descr)

WalkOf(F) ==
  ValidChain(F) =>
    /\ pc # "failed"
    /\ Len(stacks) <= Len(F.chain)
    /\ \A k \in 1..Len(stacks) : StackOf(F, F.chain[k], stacks[k])
    /\ pc = "walk" =>
         next_stack_pos = IF Len(stacks) < Len(F.chain)
                            THEN RecPos(F, F.chain[Len(stacks) + 1]) ELSE 0
    /\ pc = "done" => Len(stacks) = Len(F.chain)
    /\ pc # "done" => \A k \in 1..Len(stacks) : ~Materialized(k)

C9_Inv == file_path # NoFile => WalkOf(Content)

C9_Terminates == (file_path # NoFile /\ ValidChain(Content)) ~> (pc = "done")

\* C9: for a file whose stack headers form an acyclic chain of n >= 0 valid
\* headers ending with next_stack_pos = 0, File construction does not fail and
\* terminates: each pass of the walk appends the next header of the chain and
\* then stands at the following one, so that it returns with stacks of length
\* n, the k-th Stack being the k-th header of the chain (none skipped,
\* reordered or merged for an equal name); first_stack_pos = 0 gives the empty
\* list; no data is materialized before the list is complete.
C9_Walk == [](C9_Inv) /\ C9_Terminates

\* C9 witness: construction returned for the file whose chain visits the
\* second record of the file first.
C9_Witness ==
  /\ pc = "done" /\ file_path # NoFile /\ Len(stacks) = 2
  /\ ValidChain(Content) /\ Content.chain = <<2, 1>>
  /\ stacks[1].name = NameB /\ stacks[2].name = NameA

(***************************************************************************)
(* C10: unknown compression code.                                          *)
(***************************************************************************)
\* C10 as stated: a Stack whose compression code is neither 0 nor 1 is never
\* materialized (the header parse or the data access fails with an error).
C10_UnknownCompression ==
  \A i \in 1..Len(stacks) :
    stacks[i]._compression_type \notin {0, 1} =>
      /\ ~Materialized(i)
      /\ (op.name = "data" /\ op.stack = i) => exc # NoExc

(***************************************************************************)
(* C11: a failing construction closes the file and raises the step's error.*)
(***************************************************************************)
\* the error of reading and decoding a string of n bytes at offset p of the file
StringErrorAt(p, n) ==
  IF Len(disk) < p + n THEN "struct.error"
  ELSE IF ~Utf8(SubSeq(disk, p + 1, p + n)).ok THEN "UnicodeDecodeError"
  ELSE NoExc

\* the error of the step that reads the file header and the file description
FileHeaderError ==
  IF Len(disk) < file_header_len THEN "struct.error"
  ELSE IF SubSeq(disk, 1, 10) # FILE_MAGIC_HEADER
    THEN "RuntimeError: Magic file header not found."
  ELSE StringErrorAt(file_header_len, UInt(SubSeq(disk, 23, 26)))

NameLenAt(p) == UInt(SubSeq(disk, p + 337, p + 340))
DescrLenAt(p) == UInt(SubSeq(disk, p + 341, p + 344))

\* the error of the pass of the walk that reads the stack header at offset p
StackHeaderError(p) ==
  IF ~HeaderAt(p) THEN "struct.error"
  ELSE IF MagicAt(p) # STACK_MAGIC_HEADER THEN "RuntimeError: Magic stack header not found."
  ELSE IF DataTypeAt(p) \notin RegisteredCodes THEN "RuntimeError: Unsupported data type."
  ELSE IF StringErrorAt(p + stack_header_len, NameLenAt(p)) # NoExc
    THEN StringErrorAt(p + stack_header_len, NameLenAt(p))
  ELSE StringErrorAt(p + stack_header_len + NameLenAt(p), DescrLenAt(p))

\* the error of the construction step about to be taken (NoExc: it succeeds)
StepError ==
  IF pc = "header" THEN FileHeaderError
  ELSE IF pc = "walk" /\ next_stack_pos # 0 THEN StackHeaderError(next_stack_pos)
  ELSE NoExc

C11_Step ==
  (pc \in {"header", "walk"} /\ (StepError # NoExc \/ pc' = "failed")) =>
    /\ pc' = "failed"
    /\ exc' = StepError /\ exc' # NoExc
    /\ ~_file.closed /\ _file'.closed
    /\ _file'.log[Len(_file'.log)].op = "close"
    /\ stacks' = stacks

C11_Inv ==
  (pc = "failed" /\ _file # Unset) =>
    /\ _file.closed /\ Releases = 1
    /\ nops = 0 => exc # NoExc

\* C11: every step of File construction that fails after the file was opened
\* (short file header, file magic, file description, short stack header, stack
\* magic, data type, name, description) closes the file, exactly once, before
\* the error reaches the caller, and the error that reaches the caller is the
\* one of the failing step.
C11_FailureCloses == [](C11_Inv) /\ [][C11_Step]_vars

\* C11 witness: construction failed on the description of the second stack,
\* which is not UTF-8, and the file is closed.
C11_Witness ==
  /\ pc = "failed" /\ nops = 0 /\ exc = "UnicodeDecodeError"
  /\ Len(stacks) = 1 /\ _file.closed /\ Releases = 1

(***************************************************************************)
(* C12: decoding with the declared data type.                              *)
(***************************************************************************)
\* bytes per element of the registered data types
Width(code) ==
  CASE code \in {1, 2} -> 1 [] code \in {4, 8} -> 2 [] code \in {16, 32, 64} -> 4
    [] code = 128 -> 8

\* the payload of a record after the optional decompression
Uncompressed(rec) == IF rec.ct = 1 THEN zlib_decompress(rec.disk) ELSE Ok(rec.disk)

\* the payload of rec holds exactly one element of its declared type per
\* element of shape
WellSized(rec, shape) ==
  /\ rec.dt \in RegisteredCodes /\ rec.ct \in {0, 1}
  /\ Uncompressed(rec).ok
  /\ Len(Uncompressed(rec).val) = Prod(shape) * Width(rec.dt)

\* C12 as stated: for a record of any registered data type whose payload,
\* after optional decompression, holds exactly product(shape) * width(data
\* type) bytes, the data access that reads the payload succeeds and yields
\* product(shape) elements.
C12_DeclaredWidth ==
  (pc = "done" /\ file_path # NoFile /\ Content.cut = 0) =>
    \A i \in 1..Len(stacks) :
      (Reads(i) = 1 /\ WellSized(Visited(Content, i), stacks[i].shape)) =>
        /\ Materialized(i)
        /\ Len(stacks[i]._data.flat) = Prod(stacks[i].shape)

(***************************************************************************)
(* C13: short reads.                                                       *)
(***************************************************************************)
\* the k-th operation on the file is a read that got fewer bytes than asked
ShortRead(k) ==
  /\ _file.log[k].op = "read"
  /\ _file.log[k].pos + _file.log[k].n > Len(disk)

\* the reads of File.__init__ and _read_string are exact or fail
C13_HeaderReads ==
  _file # Unset =>
    \A k \in 1..Len(_file.log) :
      (ShortRead(k) /\ _file.log[k].who = 0) => pc = "failed"

\* C13 as stated: every read of a declared number of bytes yields exactly that
\* many bytes or fails; if the file holds fewer than _data_length bytes after
\* _data_pos, the access to data fails and no array is built from the shorter
\* run of bytes.
C13_ExactRead ==
  _file # Unset =>
    \A k \in 1..Len(_file.log) :
      ShortRead(k) =>
        IF _file.log[k].who = 0 THEN pc = "failed"
        ELSE ~Materialized(_file.log[k].who)

(***************************************************************************)
(* C14: pixel_sizes.                                                       *)
(***************************************************************************)
\* the float q = q[1] / q[2] times the int n equals the float l
TimesIs(q, n, l) == q[2] # 0 /\ q[1] * n * l[2] = l[1] * q[2]

C14_Inv ==
  (pc = "done" /\ op.name = "pixel_sizes") =>
    IF \A k \in 1..Len(stacks[op.stack].shape) : stacks[op.stack].shape[k] > 0
      THEN /\ exc = NoExc
           /\ Len(ret.items) = Len(stacks[op.stack].shape)
           /\ \A k \in 1..Len(ret.items) :
                TimesIs(ret.items[k], stacks[op.stack].shape[k],
                        stacks[op.stack].lengths[k])
      ELSE exc = "ZeroDivisionError" /\ ret = Unset

C14_Step ==
  (nops' = nops + 1 /\ op'.name = "pixel_sizes") =>
    _file' = _file /\ stacks' = stacks /\ narrays' = narrays

\* C14: for every Stack, pixel_sizes has one entry per axis with
\* pixel_sizes[i] = lengths[i] / shape[i] when every shape[i] > 0; when some
\* shape[i] = 0 the access raises ZeroDivisionError instead of returning a
\* value; the access touches neither the file nor the cached data.
C14_PixelSizes == [](C14_Inv) /\ [][C14_Step]_vars

\* C14 witness: pixel_sizes of the Stack of shape [0, 2] raised, and the file
\* was not touched.
C14_Witness ==
  /\ pc = "done" /\ op.name = "pixel_sizes" /\ exc = "ZeroDivisionError"
  /\ stacks[op.stack].shape = <<0, 2>> /\ ~Materialized(op.stack) /\ ~_file.closed

(***************************************************************************)
(* C15: the walk over a cyclic chain.                                      *)
(***************************************************************************)
\* index in F.recs of the k-th record visited by following the chain of F
VisitedIndex(F, k) ==
  IF k <= Len(F.chain) THEN F.chain[k]
  ELSE LET j == CHOOSE x \in 1..Len(F.chain) : F.chain[x] = F.last
       IN  F.chain[j + ((k - Len(F.chain) - 1) % (Len(F.chain) - j + 1))]

\* the chain of F leads back to a header already visited, all headers valid
CyclicChain(F) ==
  /\ F.magic = FILE_MAGIC_HEADER
  /\ Utf8(F.descr).ok /\ F.descr_len = Len(F.descr)
  /\ F.cut = 0
  /\ F.last # 0 /\ \E x \in 1..Len(F.chain) : F.chain[x] = F.last
  /\ \A k \in 1..Len(F.chain) : ValidRec(F.recs[F.chain[k]])

C15_Inv ==
  (file_path # NoFile /\ CyclicChain(Content)) =>
    /\ pc \notin {"done", "failed"}
    /\ pc = "walk" =>
         /\ next_stack_pos = RecPos(Content, VisitedIndex(Content, Len(stacks) + 1))
         /\ next_stack_pos # 0
    /\ \A k \in 1..Len(stacks) :
         StackOf(Content, VisitedIndex(Content, k), stacks[k])

C15_Step ==
  (file_path # NoFile /\ CyclicChain(Content) /\ pc = "walk") =>
    pc' = "walk" /\ Len(stacks') = Len(stacks) + 1

C15_KeepsWalking ==
  (file_path # NoFile /\ CyclicChain(Content)) ~> (Len(stacks) = MaxStacks)

\* C15: on a file whose chain of next_stack_pos is cyclic, all headers being
\* valid, File.__init__ never returns and never fails: the loop condition holds
\* at every pass, every pass appends one more Stack (the headers of the cycle
\* again and again, with no revisit detection), and the walk reaches every
\* number of Stacks (here up to MaxStacks).
C15_CyclicWalk == [](C15_Inv) /\ [][C15_Step]_vars /\ C15_KeepsWalking

\* C15 witness: the walk over the two-header cycle is in its third pass and has
\* appended the first header a second time.
C15_Witness ==
  /\ file_path # NoFile /\ CyclicChain(Content) /\ Len(Content.chain) = 2
  /\ pc = "walk" /\ Len(stacks) = 3
  /\ stacks[3]._data_pos = stacks[1]._data_pos /\ stacks[2]._data_pos # stacks[1]._data_pos

(***************************************************************************)
(* C16: concurrent first accesses to data.                                 *)
(***************************************************************************)
\* the array that the bytes at the payload offset of stack give
OwnArray(stack) ==
  convert(stack, uncompress(stack, PySlice(disk, stack._data_pos,
                                           stack._data_pos + stack._data_length)))

C16_ReadOnce ==
  (pc = "done") =>
    \A i \in 1..Len(stacks) : Reads(i) <= 1 /\ Decompressions(i) <= 1

C16_OwnBytes ==
  (pc = "done") =>
    \A i \in 1..Len(stacks) :
      Materialized(i) =>
        /\ OwnArray(stacks[i]).ok
        /\ stacks[i]._data.flat = OwnArray(stacks[i]).val.flat

\* C16 as stated: under two concurrent first accesses to data on Stacks of one
\* File, the payload of each Stack is read and decompressed at most once, and
\* the cached array of each Stack is built from the bytes at its own payload
\* offset.
C16_Concurrent == C16_ReadOnce /\ C16_OwnBytes

(***************************************************************************)
(* C17: a failed materialization closes the file for every Stack.          *)
(***************************************************************************)
C17_Fails ==
  \A i \in 1..Len(stacks) :
    (pc = "done" /\ IsAccess(i) /\ exc' # NoExc) =>
      /\ ~Materialized(i)
      /\ stacks' = stacks
      /\ ret' = Unset
      /\ _file'.closed

C17_Afterwards ==
  \A i \in 1..Len(stacks) :
    (pc = "done" /\ _file.closed /\ IsAccess(i)) =>
      /\ stacks' = stacks /\ _file' = _file
      /\ IF Materialized(i)
           THEN exc' = NoExc /\ ret' = stacks[i]._data
           ELSE exc' = "ValueError" /\ ret' = Unset

C17_StaysClosed == (_file # Unset /\ _file.closed) => _file'.closed

\* C17: if materializing the data of one Stack fails (short or failed read,
\* decompression failure, byte count not matching the shape), the file of the
\* File is closed and the Stack stays unmaterialized; the file stays closed, so
\* from then on the first data access of every other Stack that is not yet
\* materialized fails too, while the Stacks materialized earlier keep returning
\* their cached arrays.
C17_FailureSpreads == [][C17_Fails /\ C17_Afterwards /\ C17_StaysClosed]_vars

\* C17 witness: without any close() call, the decompression of one Stack
\* failed, the access to another unmaterialized Stack then failed without a
\* read, and the Stack materialized before still returns its array.
C17_Witness ==
  /\ pc = "done" /\ close_calls = 0 /\ Len(stacks) = 3 /\ _file.closed
  /\ Materialized(1) /\ ~Materialized(2) /\ ~Materialized(3)
  /\ Decompressions(2) = 1 /\ Reads(3) = 0
  /\ nops = 4 /\ op = [name |-> "data", stack |-> 1] /\ exc = NoExc
  /\ ret = stacks[1]._data

(***************************************************************************)
(* C18: close() and __del__ after a construction that could not open.      *)
(***************************************************************************)
\* C18 as stated: close() and __del__ never raise, in whatever state the File
\* object is, and when the file cannot be opened the caller of File(path)
\* receives the error of open and not an error raised by the cleanup.
C18_CleanupNeverRaises ==
  /\ (pc = "failed" /\ nops = 0 /\ _file = Unset) => exc = "FileNotFoundError"
  /\ op.name \in {"close", "__del__"} => exc = NoExc

=============================================================================
